---- MODULE Spec2Model ----
(***************************************************************************)
(* A model of the dependency-resolution core of the Zync Maya plugin.      *)
(*                                                                         *)
(*   Spec      the RIB archive scanner, Renderman.parse_rib_archives       *)
(*             (src/scripts/renderman_maya.py)                             *)
(*   LiveSpec  the control state of the same scanner with cancellation     *)
(*             never requested, under weak fairness (termination)          *)
(*   FrameSpec parse_frame_range on typed frame-range expressions          *)
(*   GlobSpec  seq_to_glob and _replace_attr_tokens on path templates      *)
(*             (src/scripts/zync_maya.py)                                  *)
(*   InfoSpec  the files entry of get_scene_info                           *)
(*   SceneSpec get_scene_files and its node handlers                       *)
(*   TokenSpec layer, camera and frame tokens of                           *)
(*             generate_files_from_tokenized_path and export_vrscene       *)
(*   ShowSpec  nested entry points decorated with show_exceptions          *)
(***************************************************************************)
EXTENDS Integers, Sequences, FiniteSets, TLC

VARIABLES
  contents,      \* archive file -> its lines (the file system, fixed in a run)
  nodeFiles,     \* the files the RenderManArchive nodes resolve to, in order
  queue,         \* Queue() of (file, node, file_type)
  files_parsed,  \* _process_rib_queue's counter
  cur,           \* the item taken by queue.get()
  lineNo,        \* the next line _parse_rib_archive reads from the open file
  fileSet,       \* _parse_rib_archive's fileSet
  yielded,       \* what parse_rib_archives has yielded to its caller, in order
  scanned,       \* the files _parse_rib_archive has opened, in order
  cancelled,     \* cmds.progressWindow(query=1, isCancelled=1)
  windowOpen,    \* a progress window is showing
  progress,      \* the progress last reported to the window
  maxValue,      \* the maxValue last reported to the window
  pc,            \* where parse_rib_archives stands
  ref_depth,     \* history: how many archives deep each queue item, the item
                 \* taken and each yielded file was found (0 for a node's file)
  typed,         \* the clauses the user types as a frame range
  expr,          \* the frame-range expression, a string of characters
  frames,        \* what parse_frame_range(expr) returned
  in_parts,      \* the pieces the path template is written from
  in_path,       \* the path template given to seq_to_glob, a string of characters
  glob,          \* what seq_to_glob(in_path) returned or raised
  attr_glob,     \* what _replace_attr_tokens(in_path) returned or raised
  scene_files,   \* what get_scene_files() yields to get_scene_info, in order
  extra_assets,  \* get_scene_info's extra_assets
  files,         \* scene_info['files']
  scene_nodes,   \* the scene's nodes, in the order get_scene_files visits them
  use_tx,        \* defaultArnoldRenderOptions.use_existing_tiled_textures
  storage,       \* the derived paths that exist on storage
  xgen_error,    \* _XGEN_IMPORT_ERROR is set
  xgen_attr,     \* the file paths in the "files" attributes of the Xgen objects
  node_next,     \* the index of the next node get_scene_files hands to a handler
  found,         \* what get_scene_files has yielded, in order
  gsf,           \* where get_scene_files stands
  tok_parts,     \* the pieces the tokenized path is written from
  tokenizedPath, \* the tokenized path or file name prefix, a string of characters
  camera,        \* the camera's name
  layers_to_render,  \* Renderman.layers_to_render
  allPaths,      \* generate_files_from_tokenized_path's allPaths
  tail,          \* export_vrscene's tail, with the layer it was made for
  stack,         \* the nested calls, outermost first: decorated entry point or not
  raise_at,      \* the call whose body raises, 0 when none does
  level,         \* the call control is in, 0 for the outermost caller
  exc,           \* the exception in flight and its exception_already_shown mark
  dialogs,       \* the calls whose wrapper showed the error dialog, in order
  show_pc,       \* calling, unwinding, returning, or how the outermost call ended
  LAYER_INFO,    \* the module's dict: layer -> what collect_layer_info returned
  layer_scene,   \* the scene: each layer's file name prefix
  info_call,     \* the number of get_scene_info calls started so far
  in_info,       \* a get_scene_info call is running
  collects,      \* layer -> collect_layer_info runs during the running call
  override,      \* what get_layer_override returned last
  scene,         \* the scene's render settings, frame range, current layer
  undo_queue,    \* Maya's undo queue: chunks of (attribute, old value)
  chunk_open,    \* an undo chunk is open
  exp_call,      \* the exporter that runs and its arguments
  exp_pc,        \* where the exporter stands
  scene_before,  \* history: the scene when the exporter was called
  self_files,    \* CheckableDirModel.files: path -> stored check status
  toggled,       \* history: the item setData ran on last
  files_before,  \* history: self.files when that setData began
  cleared,       \* history: self.files when its _clearDown had returned
  frange_typed,  \* the clauses of the frame range the user typed
  frange,        \* params['frange']
  upload_only,   \* params['upload_only']
  standalone     \* the sf and ef submit computed, or the error it raised

scanVars == <<contents, nodeFiles, queue, files_parsed, cur, lineNo, fileSet,
              yielded, scanned, cancelled, windowOpen, progress, maxValue, pc,
              ref_depth>>

frameVars == <<typed, expr, frames>>

globVars == <<in_parts, in_path, glob, attr_glob>>

infoVars == <<scene_files, extra_assets, files>>

sceneVars == <<scene_nodes, use_tx, storage, xgen_error, xgen_attr, node_next,
               found, gsf>>

tokenVars == <<tok_parts, tokenizedPath, camera, layers_to_render, allPaths, tail>>

showVars == <<stack, raise_at, level, exc, dialogs, show_pc>>

cacheVars == <<LAYER_INFO, layer_scene, info_call, in_info, collects, override>>

exportVars == <<scene, undo_queue, chunk_open, exp_call, exp_pc, scene_before>>

dialogVars == <<self_files, toggled, files_before, cleared>>

submitVars == <<frange_typed, frange, upload_only, standalone>>

\* The variables of the operations that are no part of a scan.
pureVars ==
  <<frameVars, globVars, infoVars, sceneVars, tokenVars, showVars,
    cacheVars, exportVars, dialogVars, submitVars>>

\* The variables an operation on frame ranges, on path templates or on the
\* scene information leaves alone.
notFrameVars ==
  <<scanVars, globVars, infoVars, sceneVars, tokenVars, showVars,
    cacheVars, exportVars, dialogVars, submitVars>>
notGlobVars ==
  <<scanVars, frameVars, infoVars, sceneVars, tokenVars, showVars,
    cacheVars, exportVars, dialogVars, submitVars>>
notInfoVars ==
  <<scanVars, frameVars, globVars, sceneVars, tokenVars, showVars,
    cacheVars, exportVars, dialogVars, submitVars>>
notSceneVars ==
  <<scanVars, frameVars, globVars, infoVars, tokenVars, showVars,
    cacheVars, exportVars, dialogVars, submitVars>>
notTokenVars ==
  <<scanVars, frameVars, globVars, infoVars, sceneVars, showVars,
    cacheVars, exportVars, dialogVars, submitVars>>
notShowVars ==
  <<scanVars, frameVars, globVars, infoVars, sceneVars, tokenVars,
    cacheVars, exportVars, dialogVars, submitVars>>
notCacheVars ==
  <<scanVars, frameVars, globVars, infoVars, sceneVars, tokenVars,
    showVars, exportVars, dialogVars, submitVars>>
notExportVars ==
  <<scanVars, frameVars, globVars, infoVars, sceneVars, tokenVars,
    showVars, cacheVars, dialogVars, submitVars>>
notDialogVars ==
  <<scanVars, frameVars, globVars, infoVars, sceneVars, tokenVars,
    showVars, cacheVars, exportVars, submitVars>>
notSubmitVars ==
  <<scanVars, frameVars, globVars, infoVars, sceneVars, tokenVars,
    showVars, cacheVars, exportVars, dialogVars>>

vars ==
  <<scanVars, frameVars, globVars, infoVars, sceneVars, tokenVars,
    showVars, cacheVars, exportVars, dialogVars, submitVars>>

(***************************************************************************)
(* Bounds of the model.                                                    *)
(***************************************************************************)
MaxInput == 3    \* node files plus archive lines of one scene
MaxParsed == 4   \* queue items one run of Spec consumes
MaxQueue == 8    \* queue length LiveSpec lets a scan build up
MaxFrame == 12       \* bounds of a one-clause expression are in -MaxFrame..MaxFrame
MaxClauses == 2      \* clauses of a comma-separated expression
MaxSmallFrame == 1   \* their bounds are in -MaxSmallFrame..MaxSmallFrame
MaxPieces == 3       \* pieces a path template is put together from
MaxSceneFiles == 2   \* paths get_scene_files yields to get_scene_info
MaxExtra == 2        \* paths of extra_assets
MaxNodes == 2        \* nodes of a scene
MaxTokPieces == 2    \* pieces a tokenized path is put together from
MaxLayers == 2       \* layers to render
MaxDepth == 3        \* calls nested in one another
MaxCalls == 2        \* get_scene_info calls in a row
MaxExportFrame == 2  \* frames an exporter is asked to start at

(***************************************************************************)
(* The file system.                                                        *)
(***************************************************************************)
ArchiveFiles == {"a.rib", "b.rib"}            \* readable archives
Unreadable == {"u.rib"}                       \* exists, open() fails
Textures == {"d\\t.tif"}
Existing == ArchiveFiles \cup Unreadable \cup Textures
Missing == {"m.rib"}
Paths == Existing \cup Missing

RibNames == {"a.rib", "b.rib", "u.rib", "m.rib"}   \* the names ending in .rib

\* file.replace('\\', '/')
Slash(p) == IF p = "d\\t.tif" THEN "d/t.tif" ELSE p

\* A storage on which every path exists.
Exists_Always(p) == TRUE

\* os.path.exists(file)
Exists(p) == p \in Existing

\* A line of an archive holds one quoted path, either bare ("x") or as the
\* value of a texture attribute ("string filename" ["x"), or no path at all.
\* The archives of the model quote archive names bare and give textures, and
\* one archive name, as attribute values.
Lines == [path : RibNames, attr : {"bare"}]
           \cup [path : Textures \cup {"b.rib"}, attr : {"tex"}]

\* re.findall of the four patterns on one line: the archive pattern matches
\* any quoted string ending in .rib, the texture patterns the attribute value.
Matches(line) ==
  (IF line.path \in RibNames THEN {<<line.path, "rib">>} ELSE {})
    \cup (IF line.attr = "tex" THEN {<<line.path, "tex">>} ELSE {})

\* What one pass over a line adds to fileSet.
FoundInLine(line) == {m \in Matches(line) : Exists(m[1])}

Range(s) == {s[i] : i \in 1..Len(s)}

SeqsUpTo(S, n) == UNION {[1..k -> S] : k \in 0..n}

\* The orders a Python set may be iterated in.
Orders(S) == {s \in [1..Cardinality(S) -> S] : \A i, j \in 1..Cardinality(S) :
                 s[i] = s[j] => i = j}

NoItem == [file |-> "", node |-> 0, type |-> "none"]

Terminal == {"done", "raised", "ioerror"}

(***************************************************************************)
(* Init: before parse_rib_archives is first resumed.                       *)
(***************************************************************************)
ScanStart(p) ==
  /\ queue = <<>>
  /\ files_parsed = 0
  /\ cur = NoItem
  /\ lineNo = 0
  /\ fileSet = {}
  /\ yielded = <<>>
  /\ scanned = <<>>
  /\ cancelled = FALSE
  /\ windowOpen = FALSE
  /\ progress = 0
  /\ maxValue = 0
  /\ pc = p
  /\ ref_depth = [queue |-> <<>>, cur |-> 0, yielded |-> <<>>]

ScanInit ==
  /\ \E n \in 0..MaxInput : \E la \in 0..(MaxInput - n) :
       \E lb \in 0..(MaxInput - n - la) :
         /\ nodeFiles \in [1..n -> ArchiveFiles]
         /\ \E sa \in [1..la -> Lines], sb \in [1..lb -> Lines] :
              contents = [f \in ArchiveFiles |-> IF f = "a.rib" THEN sa ELSE sb]
  /\ ScanStart("start")

\* No scan is asked for: the state of the specifications of the other
\* operations.
ScanIdle ==
  /\ contents = [f \in ArchiveFiles |-> <<>>]
  /\ nodeFiles = <<>>
  /\ ScanStart("idle")

NotParsed == [status |-> "none", value |-> <<>>]

FramesIdle == typed = <<>> /\ expr = <<>> /\ frames = NotParsed

NotGlobbed == [status |-> "none", value |-> <<>>]

GlobIdle == in_parts = <<>> /\ in_path = <<>> /\ glob = NotGlobbed /\ attr_glob = NotGlobbed

NotCollected == [status |-> "none", value |-> <<>>]

InfoIdle == scene_files = <<>> /\ extra_assets = <<>> /\ files = NotCollected

SceneIdle ==
  /\ scene_nodes = <<>>
  /\ use_tx = "off"
  /\ storage = {}
  /\ xgen_error = FALSE
  /\ xgen_attr = <<>>
  /\ node_next = 0
  /\ found = <<>>
  /\ gsf = "idle"

NotExpanded == [status |-> "none", value |-> <<>>]

TokensIdle ==
  /\ tok_parts = <<>>
  /\ tokenizedPath = <<>>
  /\ camera = <<>>
  /\ layers_to_render = <<>>
  /\ allPaths = NotExpanded
  /\ tail = NotExpanded

NoException == [raised |-> FALSE, exception_already_shown |-> FALSE]

ShowIdle ==
  /\ stack = <<>>
  /\ raise_at = 0
  /\ level = 0
  /\ exc = NoException
  /\ dialogs = <<>>
  /\ show_pc = "idle"

NoOverride == [layer |-> "", value |-> "", call |-> 0]

CacheIdle ==
  /\ LAYER_INFO = <<>>
  /\ layer_scene = <<>>
  /\ info_call = 0
  /\ in_info = FALSE
  /\ collects = <<>>
  /\ override = NoOverride

NoCall == [exporter |-> "none", layer |-> "none", start_frame |-> 0]
IdleScene ==
  [currentRenderLayer |-> "defaultRenderLayer", vrscene_on |-> 0,
   startFrame |-> 1]

ExportIdle ==
  /\ scene = IdleScene
  /\ undo_queue = <<>>
  /\ chunk_open = FALSE
  /\ exp_call = NoCall
  /\ exp_pc = "idle"
  /\ scene_before = IdleScene

\* The directory tree the dialog shows: / with /r, and in it /r/a (with the
\* files /r/a/x and /r/a/y) and the file /r/b.
TreeRoot == <<"/">>
DirR == <<"/", "r">>
DirA == <<"/", "r", "/", "a">>
FileB == <<"/", "r", "/", "b">>
FileX == <<"/", "r", "/", "a", "/", "x">>
FileY == <<"/", "r", "/", "a", "/", "y">>
Listing == <<TreeRoot, DirR, DirA, FileB, FileX, FileY>>
DirTree == {Listing[i] : i \in 1..Len(Listing)}
NothingStored == [n \in DirTree |-> "absent"]
NoFilename == <<>>

DialogIdle ==
  /\ self_files = NothingStored
  /\ toggled = NoFilename
  /\ files_before = NothingStored
  /\ cleared = NothingStored

NotSubmitted == [status |-> "none", sf |-> 0, ef |-> 0]

SubmitIdle ==
  /\ frange_typed = <<>>
  /\ frange = <<>>
  /\ upload_only = 0
  /\ standalone = NotSubmitted

Init ==
  /\ ScanInit /\ FramesIdle /\ GlobIdle /\ InfoIdle /\ SceneIdle /\ TokensIdle
  /\ ShowIdle
  /\ CacheIdle
  /\ ExportIdle
  /\ DialogIdle
  /\ SubmitIdle

(***************************************************************************)
(* parse_rib_archives, _enqueue_rib_files and the head of                  *)
(* _process_rib_queue: every file of every node is queued as 'rib'; an     *)
(* empty queue returns at once, otherwise the progress window opens.       *)
(***************************************************************************)
SeedQueue == [i \in 1..Len(nodeFiles) |->
                [file |-> nodeFiles[i], node |-> i, type |-> "rib"]]

EnqueueRibFiles ==
  /\ pc = "start"
  /\ queue' = SeedQueue
  /\ IF SeedQueue = <<>>
       THEN /\ pc' = "done"
            /\ UNCHANGED <<windowOpen, progress, maxValue>>
       ELSE /\ pc' = "loop"
            /\ windowOpen' = TRUE
            /\ progress' = files_parsed
            /\ maxValue' = files_parsed + Len(SeedQueue)
  /\ ref_depth' = [ref_depth EXCEPT !.queue = [i \in 1..Len(SeedQueue) |-> 0]]
  /\ UNCHANGED <<contents, nodeFiles, files_parsed, cur, lineNo, fileSet,
                 yielded, scanned, cancelled>>
  /\ UNCHANGED pureVars

\* A report of the queue's size alone.
ReportedTotal_QueueOnly(parsed, q) == Len(q)

\* maxValue=files_parsed + queue.qsize()
ReportedTotal(parsed, q) == parsed + Len(q)

\* A loop that never asks for cancellation.
LoopRuns_NoCancelCheck == queue # <<>>

\* while not queue.empty() and not isCancelled
LoopRuns == queue # <<>> /\ ~cancelled

(***************************************************************************)
(* One turn of the while loop up to its yield: get, count, report, yield.  *)
(* DequeueCtl is what the turn does to the control state.                  *)
(***************************************************************************)
DequeueCtl ==
  /\ pc = "loop"
  /\ LoopRuns
  /\ cur' = Head(queue)
  /\ queue' = Tail(queue)
  /\ pc' = "yielded"
  /\ UNCHANGED <<contents, nodeFiles, lineNo, fileSet, cancelled, windowOpen>>
  /\ UNCHANGED pureVars

DequeueItem ==
  /\ DequeueCtl
  /\ files_parsed < MaxParsed
  /\ files_parsed' = files_parsed + 1
  /\ progress' = files_parsed'
  /\ maxValue' = ReportedTotal(files_parsed', queue')
  /\ yielded' = Append(yielded, Slash(Head(queue).file))
  /\ ref_depth' = [queue |-> Tail(ref_depth.queue),
                   cur |-> Head(ref_depth.queue),
                   yielded |-> Append(ref_depth.yielded, Head(ref_depth.queue))]
  /\ UNCHANGED scanned

\* The loop condition fails: control returns to parse_rib_archives.
ExitLoop ==
  /\ pc = "loop"
  /\ ~LoopRuns
  /\ pc' = "final"
  /\ UNCHANGED <<contents, nodeFiles, queue, files_parsed, cur, lineNo,
                 fileSet, yielded, scanned, cancelled, windowOpen, progress,
                 maxValue, ref_depth>>
  /\ UNCHANGED pureVars

(***************************************************************************)
(* The caller resumes the generator: a 'rib' item is opened and its scan   *)
(* starts, any other item ends the turn.  open() of an unreadable file     *)
(* raises IOError, which nothing catches.                                  *)
(***************************************************************************)
OpenFails(f) == f \in Unreadable

ResumeCtl ==
  /\ pc = "yielded"
  /\ IF cur.type = "rib"
       THEN IF OpenFails(cur.file)
              THEN /\ pc' = "ioerror"
                   /\ UNCHANGED <<lineNo, fileSet>>
              ELSE /\ pc' = "reading"
                   /\ lineNo' = 1
                   /\ fileSet' = {}
       ELSE /\ pc' = "loop"
            /\ UNCHANGED <<lineNo, fileSet>>
  /\ UNCHANGED <<contents, nodeFiles, queue, files_parsed, cur, yielded,
                 cancelled, windowOpen, progress, maxValue, ref_depth>>
  /\ UNCHANGED pureVars

ResumeAfterYield ==
  /\ ResumeCtl
  /\ scanned' = IF pc' = "reading" THEN Append(scanned, cur.file) ELSE scanned

\* A read loop that stops one line short.
ReadRuns_StopsEarly == lineNo < Len(contents[cur.file]) /\ ~cancelled

\* while line != '' and not isCancelled
ReadRuns == lineNo <= Len(contents[cur.file]) /\ ~cancelled

ReadLine ==
  /\ pc = "reading"
  /\ ReadRuns
  /\ fileSet' = fileSet \cup FoundInLine(contents[cur.file][lineNo])
  /\ lineNo' = lineNo + 1
  /\ UNCHANGED <<contents, nodeFiles, queue, files_parsed, cur, yielded,
                 scanned, cancelled, windowOpen, progress, maxValue, pc,
                 ref_depth>>
  /\ UNCHANGED pureVars

(***************************************************************************)
(* The read loop ends, the file is closed and every (f, t) of fileSet is   *)
(* put on the queue, in the order the set is iterated in.                  *)
(***************************************************************************)
\* A queue that hands out the newest items first.
Put_AtFront(q, items) == items \o q

\* queue.put of each item in turn, on a Queue (first in, first out).
Put(q, items) == q \o items

CloseAndPutCtl ==
  /\ pc = "reading"
  /\ ~ReadRuns
  /\ \E order \in Orders(fileSet) :
       queue' = Put(queue, [i \in 1..Len(order) |->
                   [file |-> order[i][1], node |-> cur.node, type |-> order[i][2]]])
  /\ pc' = "loop"
  /\ UNCHANGED <<contents, nodeFiles, files_parsed, cur, lineNo, fileSet,
                 yielded, scanned, cancelled, windowOpen, progress, maxValue>>
  /\ UNCHANGED pureVars

CloseAndPut ==
  /\ CloseAndPutCtl
  /\ ref_depth' = [ref_depth EXCEPT !.queue =
       Put(@, [i \in 1..Cardinality(fileSet) |-> ref_depth.cur + 1])]

(***************************************************************************)
(* After the loop: a cancelled scan ends the progress and raises           *)
(* MayaZyncException("Submission cancelled"), any other ends the progress. *)
(***************************************************************************)
\* A final check that never raises.
RaisesCancelled_Never == FALSE

\* A final check that raises only when items are left on the queue.
RaisesCancelled_ItemsLeft == cancelled /\ queue # <<>>

RaisesCancelled == cancelled

FinalCheck ==
  /\ pc = "final"
  /\ windowOpen' = FALSE
  /\ pc' = IF RaisesCancelled THEN "raised" ELSE "done"
  /\ UNCHANGED <<contents, nodeFiles, queue, files_parsed, cur, lineNo,
                 fileSet, yielded, scanned, cancelled, progress, maxValue,
                 ref_depth>>
  /\ UNCHANGED pureVars

\* The user presses Esc on the interruptable progress window.
Cancel ==
  /\ windowOpen
  /\ ~cancelled
  /\ pc \notin Terminal
  /\ cancelled' = TRUE
  /\ UNCHANGED <<contents, nodeFiles, queue, files_parsed, cur, lineNo,
                 fileSet, yielded, scanned, windowOpen, progress, maxValue, pc,
                 ref_depth>>
  /\ UNCHANGED pureVars

Next ==
  \/ EnqueueRibFiles
  \/ DequeueItem
  \/ ExitLoop
  \/ ResumeAfterYield
  \/ ReadLine
  \/ CloseAndPut
  \/ FinalCheck
  \/ Cancel

Spec == Init /\ [][Next]_vars

(***************************************************************************)
(* Claims about the archive scanner.                                       *)
(***************************************************************************)
NoDuplicates(s) == \A i, j \in 1..Len(s) : s[i] = s[j] => i = j

\* What one complete pass over archive f adds to the queue.
AllFound(f) == UNION {FoundInLine(contents[f][i]) : i \in 1..Len(contents[f])}

\* What the lines 1..n of archive f add to the queue.
FoundUpTo(f, n) == UNION {FoundInLine(contents[f][i]) : i \in 1..n}

Expand(S) ==
  S \cup UNION {AllFound(m[1]) : m \in {x \in S : x[2] = "rib" /\ ~OpenFails(x[1])}}

RECURSIVE Closure(_)
Closure(S) == IF Expand(S) = S THEN S ELSE Closure(Expand(S))

\* Every (file, type) a scan of this scene can ever put on its queue, and
\* the files a scan that is never cancelled yields when it reads them all.
Reachable == Closure({<<nodeFiles[i], "rib">> : i \in 1..Len(nodeFiles)})
FullResult == {Slash(m[1]) : m \in Reachable}

InQueue(m) == \E i \in 1..Len(queue) : queue[i].file = m[1] /\ queue[i].type = m[2]

\* C1: during one run no file path is yielded or opened more than once.
C1_NoPathTwice == NoDuplicates(yielded) /\ NoDuplicates(scanned)

\* C2: with cancellation never requested, every scan of a finite set of
\* archives eventually ends, also when the archives reference each other in
\* a cycle.
C2_ScanTerminates == <>(pc \in Terminal)

C4_CancelledSubset ==
  /\ [](Range(yielded) \subseteq FullResult)
  /\ [](pc = "done" => Range(yielded) = FullResult)
  /\ [][cancelled => yielded' = yielded]_vars

C4_Witness ==
  /\ pc = "raised"
  /\ scanned # <<>>
  /\ lineNo <= Len(contents[cur.file])
  /\ yielded # <<>>
  /\ Range(yielded) # FullResult

C6_ReadFailureRecovered == pc # "ioerror"

\* C7: in every progress report the completed count is at most the total and
\* is the number of items consumed, it grows by exactly 1 per consumed item,
\* and the total never decreases from one report to the next.
C7_ProgressReports ==
  /\ [](progress <= maxValue /\ progress = Len(yielded))
  /\ [][/\ maxValue' >= maxValue
        /\ progress' \in {progress, progress + 1}
        /\ Len(yielded') = Len(yielded) + 1 => progress' = progress + 1]_vars

C7_Witness == progress >= 3 /\ maxValue > Len(nodeFiles) + 1 /\ queue # <<>>

NonDecreasing(s) == \A i, j \in 1..Len(s) : i <= j => s[i] <= s[j]

\* C21: the queue is consumed first in, first out: the files of the nodes
\* (depth 0) are yielded before any file found inside an archive, and every
\* file found at depth d before any file found at depth d + 1.
C21_BreadthFirst ==
  /\ NonDecreasing(ref_depth.yielded)
  /\ NonDecreasing(ref_depth.queue)
  /\ \A i \in 1..Len(ref_depth.queue) :
       /\ ref_depth.queue[i] >= ref_depth.cur
       /\ ref_depth.queue[i] <= ref_depth.cur + 1
  /\ Len(ref_depth.yielded) = Len(yielded)

C21_Witness == pc = "done" /\ ref_depth.yielded = <<0, 1, 1, 2>>

\* C22: a reference matched inside an archive is on the queue only if it
\* exists on storage; only items of type 'rib' are opened and scanned, an
\* item of type 'tex' is yielded and not read.
C22_OnlyExistingOnlyRibRead ==
  /\ [](\A m \in fileSet : m[1] \in Existing)
  /\ [](\A i \in 1..Len(queue) :
          ref_depth.queue[i] > 0 => queue[i].file \in Existing)
  /\ [](pc \in {"reading", "ioerror"} => cur.type = "rib")
  /\ [][scanned' # scanned =>
          cur.type = "rib" /\ scanned' = Append(scanned, cur.file)]_vars
  /\ [][(pc = "yielded" /\ cur.type = "tex") =>
          /\ scanned' = scanned
          /\ pc' \in {"yielded", "loop"}
          /\ yielded[Len(yielded)] = Slash(cur.file)]_vars

C22_Witness ==
  /\ pc = "done"
  /\ scanned = <<"a.rib">>
  /\ yielded = <<"a.rib", "d/t.tif">>
  /\ \E i \in 1..Len(contents["a.rib"]) : contents["a.rib"][i].path = "m.rib"

LiveDequeueItem ==
  /\ DequeueCtl
  /\ UNCHANGED <<files_parsed, progress, maxValue, yielded, scanned, ref_depth>>

LiveResumeAfterYield ==
  /\ ResumeCtl
  /\ UNCHANGED scanned

LiveCloseAndPut ==
  /\ Len(queue) + Cardinality(fileSet) <= MaxQueue
  /\ CloseAndPutCtl
  /\ UNCHANGED ref_depth

LiveNext ==
  \/ EnqueueRibFiles
  \/ LiveDequeueItem
  \/ ExitLoop
  \/ LiveResumeAfterYield
  \/ ReadLine
  \/ LiveCloseAndPut
  \/ FinalCheck

LiveSpec == Init /\ [][LiveNext]_vars /\ WF_vars(LiveNext)

(***************************************************************************)
(* parse_frame_range.  The function is called by the tests of the          *)
(* repository (zync_maya_test.py) and is not among its sources: it is      *)
(* modelled from section 4.1 of the specification, on strings of           *)
(* characters.                                                             *)
(***************************************************************************)
DigitChars == <<"0", "1", "2", "3", "4", "5", "6", "7", "8", "9">>

IsDigit(c) == \E i \in 1..Len(DigitChars) : DigitChars[i] = c

DigitVal(c) == (CHOOSE i \in 1..Len(DigitChars) : DigitChars[i] = c) - 1

\* The decimal digits of n >= 0.
RECURSIVE Digits(_)
Digits(n) == IF n < Len(DigitChars)
               THEN <<DigitChars[n + 1]>>
               ELSE Digits(n \div Len(DigitChars))
                      \o <<DigitChars[(n % Len(DigitChars)) + 1]>>

\* A signed number as the user types it.
FormatInt(n) == IF n < 0 THEN <<"-">> \o Digits(-n) ELSE Digits(n)

FormatClause(c) ==
  CASE c.kind = "one" -> FormatInt(c.a)
    [] c.kind = "range" -> FormatInt(c.a) \o <<"-">> \o FormatInt(c.b)
    [] OTHER -> c.text

RECURSIVE FormatExpr(_)
FormatExpr(cs) ==
  IF cs = <<>> THEN <<>>
  ELSE IF Len(cs) = 1 THEN FormatClause(cs[1])
  ELSE FormatClause(cs[1]) \o <<",">> \o FormatExpr(Tail(cs))

\* expr.split(',')
RECURSIVE SplitCommas(_)
SplitCommas(s) ==
  LET commas == {i \in 1..Len(s) : s[i] = ","}
  IN  IF commas = {} THEN <<s>>
      ELSE LET i == CHOOSE k \in commas : \A j \in commas : k <= j
           IN  <<SubSeq(s, 1, i - 1)>> \o SplitCommas(SubSeq(s, i + 1, Len(s)))

IsUnsigned(s) == Len(s) >= 1 /\ \A i \in 1..Len(s) : IsDigit(s[i])

\* Optional leading '-', digits.
IsSigned(s) == \/ IsUnsigned(s)
               \/ Len(s) >= 2 /\ s[1] = "-" /\ IsUnsigned(Tail(s))

RECURSIVE ToNat(_)
ToNat(s) == IF s = <<>> THEN 0
            ELSE ToNat(SubSeq(s, 1, Len(s) - 1)) * Len(DigitChars) + DigitVal(s[Len(s)])

ToInt(s) == IF s[1] = "-" THEN 0 - ToNat(Tail(s)) ELSE ToNat(s)

\* Every '-' of the clause taken as a separator.
Separators_AnyDash(c) == {i \in 2..Len(c) : c[i] = "-"}

\* The dashes that separate start from end: not the leading sign, and not a
\* '-' that follows another '-' (the sign of a negative end).
Separators(c) == {i \in 2..Len(c) : c[i] = "-" /\ c[i - 1] # "-"}

\* Scanning from the right.
SplitPoint(c) == CHOOSE i \in Separators(c) : \A j \in Separators(c) : j <= i

\* From start to end, counting down when start > end.
RECURSIVE CountFrames(_, _)
CountFrames(start, end) ==
  IF start = end THEN <<start>>
  ELSE <<start>> \o CountFrames(IF start < end THEN start + 1 ELSE start - 1, end)

ClauseError == [ok |-> FALSE, value |-> <<>>]

ParseClause(c) ==
  IF IsSigned(c) THEN [ok |-> TRUE, value |-> <<ToInt(c)>>]
  ELSE IF Separators(c) = {} THEN ClauseError
  ELSE LET i == SplitPoint(c)
           start == SubSeq(c, 1, i - 1)
           end == SubSeq(c, i + 1, Len(c))
       IN  IF IsSigned(start) /\ IsSigned(end)
             THEN [ok |-> TRUE, value |-> CountFrames(ToInt(start), ToInt(end))]
             ELSE ClauseError

\* The frames of the later clauses put in front.
JoinFrames_Prepend(first, rest) == rest \o first

\* The frames of a clause followed by those of the clauses after it.
JoinFrames(first, rest) == first \o rest

RECURSIVE ParseClauses(_)
ParseClauses(cl) ==
  IF cl = <<>> THEN [ok |-> TRUE, value |-> <<>>]
  ELSE LET h == ParseClause(Head(cl))
           t == ParseClauses(Tail(cl))
       IN  IF h.ok /\ t.ok
             THEN [ok |-> TRUE, value |-> JoinFrames(h.value, t.value)]
             ELSE ClauseError

parse_frame_range(e) ==
  LET r == ParseClauses(SplitCommas(e))
  IN  IF r.ok THEN [status |-> "ok", value |-> r.value]
      ELSE [status |-> "ValueError", value |-> <<>>]

\* The expressions of the model: one clause over -MaxFrame..MaxFrame, or up
\* to MaxClauses clauses over -MaxSmallFrame..MaxSmallFrame; a clause is a
\* number, a range, or text outside the grammar.
BadTexts == {<<"a">>, <<"1", "-">>, <<"-", "-", "1">>, <<"1", "-", "2", "-", "3">>}

ClausesOver(F) ==
  [kind : {"one"}, a : F, b : {0}, text : {<<>>}]
    \cup [kind : {"range"}, a : F, b : F, text : {<<>>}]
    \cup [kind : {"bad"}, a : {0}, b : {0}, text : BadTexts]

TypedExprs ==
  [1..1 -> ClausesOver((0 - MaxFrame)..MaxFrame)]
    \cup SeqsUpTo(ClausesOver((0 - MaxSmallFrame)..MaxSmallFrame), MaxClauses)

FramesInit ==
  /\ typed \in TypedExprs
  /\ expr = FormatExpr(typed)
  /\ frames = NotParsed

ParseFrameRange ==
  /\ pc = "idle"
  /\ frames = NotParsed
  /\ frames' = parse_frame_range(expr)
  /\ UNCHANGED <<typed, expr>>
  /\ UNCHANGED notFrameVars

FrameNext == ParseFrameRange

FrameInit ==
  /\ ScanIdle /\ FramesInit /\ GlobIdle /\ InfoIdle /\ SceneIdle /\ TokensIdle
  /\ ShowIdle
  /\ CacheIdle
  /\ ExportIdle
  /\ DialogIdle
  /\ SubmitIdle

FrameSpec == FrameInit /\ [][FrameNext]_vars

(***************************************************************************)
(* Claims about parse_frame_range.                                         *)
(***************************************************************************)
Abs(n) == IF n < 0 THEN 0 - n ELSE n

\* The inclusive sequence from a to b in steps of exactly +1 or -1.
Stepping(a, b) ==
  [i \in 1..(Abs(b - a) + 1) |-> IF a <= b THEN a + (i - 1) ELSE a - (i - 1)]

ExpectedOf(c) == IF c.kind = "one" THEN <<c.a>> ELSE Stepping(c.a, c.b)

RECURSIVE ExpectedInOrder(_)
ExpectedInOrder(cs) ==
  IF cs = <<>> THEN <<>> ELSE ExpectedOf(Head(cs)) \o ExpectedInOrder(Tail(cs))

InGrammar(cs) == cs # <<>> /\ \A i \in 1..Len(cs) : cs[i].kind # "bad"

\* C8: a clause 'A-B' with signed bounds, A # B, parses to the inclusive
\* sequence from A to B in steps of exactly +1 (A < B) or -1 (A > B); a clause
\* that is one signed number N parses to <<N>>.
C8_ClauseSteps ==
  (frames # NotParsed /\ Len(typed) = 1 /\ typed[1].kind # "bad"
     /\ (typed[1].kind = "range" => typed[1].a # typed[1].b))
    => frames = [status |-> "ok", value |-> ExpectedOf(typed[1])]

C8_Witness ==
  /\ Len(typed) = 1
  /\ typed[1].kind = "range"
  /\ typed[1].a = 1
  /\ typed[1].b = 0 - 11
  /\ expr = <<"1", "-", "-", "1", "1">>
  /\ frames.status = "ok"
  /\ Len(frames.value) = 13

\* C9: a comma-separated expression parses to the concatenation of the
\* sequences of its clauses in input clause order, duplicates kept.
C9_ClauseOrder ==
  (frames # NotParsed /\ InGrammar(typed))
    => frames = [status |-> "ok", value |-> ExpectedInOrder(typed)]

C9_Witness ==
  /\ Len(typed) = 2
  /\ frames = [status |-> "ok", value |-> <<1, 0, 1>>]

(***************************************************************************)
(* seq_to_glob and _replace_attr_tokens, on strings of characters.         *)
(***************************************************************************)
UpperChars ==
  <<"A", "B", "C", "D", "E", "F", "G", "H", "I", "J", "K", "L", "M",
  "N", "O", "P", "Q", "R", "S", "T", "U", "V", "W", "X", "Y", "Z">>
LowerChars ==
  <<"a", "b", "c", "d", "e", "f", "g", "h", "i", "j", "k", "l", "m",
  "n", "o", "p", "q", "r", "s", "t", "u", "v", "w", "x", "y", "z">>

\* str.lower() of one character; re.IGNORECASE compares characters this way.
Lower(c) == IF \E i \in 1..Len(UpperChars) : UpperChars[i] = c
              THEN LowerChars[CHOOSE i \in 1..Len(UpperChars) : UpperChars[i] = c]
              ELSE c

TokAttrOpen == <<"<", "a", "t", "t", "r", ":">>
TokMeshitem == <<"<", "m", "e", "s", "h", "i", "t", "e", "m", ">">>
TokUdim == <<"<", "u", "d", "i", "m", ">">>
TokTile == <<"<", "t", "i", "l", "e", ">">>
TokUvtile == <<"<", "u", "v", "t", "i", "l", "e", ">">>
TokUV == <<"u", "<", "u", ">", "_", "v", "<", "v", ">">>
TokU == <<"<", "u", ">">>
TokV == <<"<", "v", ">">>
TokFrame0 == <<"<", "f", "r", "a", "m", "e", "0">>

\* pat (lower case) stands at position i of s, case ignored.
HasAtCI(s, i, pat) ==
  /\ i + Len(pat) - 1 <= Len(s)
  /\ \A j \in 1..Len(pat) : Lower(s[i + j - 1]) = pat[j]

\* pat in s.lower()
ContainsCI(s, pat) == \E i \in 1..Len(s) : HasAtCI(s, i, pat)

RECURSIVE DigitRun(_, _)
DigitRun(s, i) == IF i <= Len(s) /\ IsDigit(s[i]) THEN 1 + DigitRun(s, i + 1) ELSE 0

RECURSIVE HashRun(_, _)
HashRun(s, i) == IF i <= Len(s) /\ s[i] = "#" THEN 1 + HashRun(s, i + 1) ELSE 0

\* The length of the match of a pattern of seq_to_glob at position i of s,
\* 0 when it does not match there.
MatchLen(kind, s, i) ==
  CASE kind = "attr" ->       \* <attr:.*?>
         IF HasAtCI(s, i, TokAttrOpen)
              /\ \E j \in (i + Len(TokAttrOpen))..Len(s) : s[j] = ">"
           THEN (CHOOSE j \in (i + Len(TokAttrOpen))..Len(s) :
                   /\ s[j] = ">"
                   /\ \A k \in (i + Len(TokAttrOpen))..(j - 1) : s[k] # ">") - i + 1
           ELSE 0
    [] kind = "meshitem" -> IF HasAtCI(s, i, TokMeshitem) THEN Len(TokMeshitem) ELSE 0
    [] kind = "udim" -> IF HasAtCI(s, i, TokUdim) THEN Len(TokUdim) ELSE 0
    [] kind = "tile" -> IF HasAtCI(s, i, TokTile) THEN Len(TokTile) ELSE 0
    [] kind = "uvtile" -> IF HasAtCI(s, i, TokUvtile) THEN Len(TokUvtile) ELSE 0
    [] kind = "hashes" -> HashRun(s, i)     \* #+
    [] kind = "uv" ->         \* <u>|<v>
         IF HasAtCI(s, i, TokU) \/ HasAtCI(s, i, TokV) THEN Len(TokU) ELSE 0
    [] kind = "frame0" ->     \* <frame0\d+>
         LET d == DigitRun(s, i + Len(TokFrame0))
             close == i + Len(TokFrame0) + d
         IN  IF HasAtCI(s, i, TokFrame0) /\ d >= 1 /\ close <= Len(s) /\ s[close] = ">"
               THEN Len(TokFrame0) + d + 1
               ELSE 0

\* re.sub(pattern, '*', s, flags=re.IGNORECASE), from position i on.
RECURSIVE SubFrom(_, _, _)
SubFrom(kind, s, i) ==
  IF i > Len(s) THEN <<>>
  ELSE LET n == MatchLen(kind, s, i)
       IN  IF n > 0 THEN <<"*">> \o SubFrom(kind, s, i + n)
           ELSE <<s[i]>> \o SubFrom(kind, s, i + 1)

ReSub(kind, s) == SubFrom(kind, s, 1)

\* A variant that takes only '*' for a wildcard character.
TooWide_StarsOnly(g) == \A i \in 1..Len(g) : g[i] = "*"

\* not re.search(r'[^/*]', glob_path)
TooWide(g) == \A i \in 1..Len(g) : g[i] \in {"/", "*"}

_replace_attr_tokens(path) ==
  IF path = <<>> THEN [status |-> "ok", value |-> path]
  ELSE LET glob_path == ReSub("attr", path)
       IN  IF TooWide(glob_path)
             THEN [status |-> "MayaZyncException", value |-> glob_path]
             ELSE [status |-> "ok", value |-> glob_path]

\* os.path.dirname and os.path.basename (posixpath).
LastSlash(p) ==
  IF \E i \in 1..Len(p) : p[i] = "/"
    THEN CHOOSE i \in 1..Len(p) : p[i] = "/" /\ \A j \in (i + 1)..Len(p) : p[j] # "/"
    ELSE 0

RECURSIVE RStripSlash(_)
RStripSlash(p) ==
  IF p # <<>> /\ p[Len(p)] = "/" THEN RStripSlash(SubSeq(p, 1, Len(p) - 1)) ELSE p

Dirname(p) ==
  LET head == SubSeq(p, 1, LastSlash(p))
  IN  IF head # <<>> /\ \E i \in 1..Len(head) : head[i] # "/"
        THEN RStripSlash(head) ELSE head

Basename(p) == SubSeq(p, LastSlash(p) + 1, Len(p))

\* list(re.finditer(r'\d+', base))[-1], as (start, end); (0, 0) without digits.
LastDigitRun(base) ==
  IF \E i \in 1..Len(base) : IsDigit(base[i])
    THEN LET e == CHOOSE i \in 1..Len(base) :
                    IsDigit(base[i]) /\ \A j \in (i + 1)..Len(base) : ~IsDigit(base[j])
             b == CHOOSE i \in 1..e :
                    /\ \A j \in i..e : IsDigit(base[j])
                    /\ i > 1 => ~IsDigit(base[i - 1])
         IN  <<b, e>>
    ELSE <<0, 0>>

\* The tail of seq_to_glob: the last number of the file name becomes '*'.
GlobLastNumber(p) ==
  LET head == Dirname(p)
      base == Basename(p)
      m == LastDigitRun(base)
  IN  IF m # <<0, 0>>
        THEN head \o <<"/">> \o SubSeq(base, 1, m[1] - 1) \o <<"*">>
               \o SubSeq(base, m[2] + 1, Len(base))
        ELSE p

seq_to_glob(path) ==
  LET r == _replace_attr_tokens(path)
      p == ReSub("meshitem", r.value)
  IN  IF r.status # "ok" THEN r
      ELSE [status |-> "ok", value |->
             IF ContainsCI(p, TokUdim) THEN ReSub("udim", p)
             ELSE IF ContainsCI(p, TokTile) THEN ReSub("tile", p)
             ELSE IF ContainsCI(p, TokUvtile) THEN ReSub("uvtile", p)
             ELSE IF \E i \in 1..Len(p) : p[i] = "#" THEN ReSub("hashes", p)
             ELSE IF ContainsCI(p, TokUV) THEN ReSub("uv", p)
             ELSE IF ContainsCI(p, TokFrame0) THEN ReSub("frame0", p)
             ELSE GlobLastNumber(p)]

\* The path templates of the model: up to MaxPieces of these pieces in a row.
Pieces == {
  <<"/">>,
  <<".">>,
  <<"t", "e", "x">>,
  <<"1", "2">>,
  <<"*">>,
  <<"#">>,
  <<"<", "u", "d", "i", "m", ">">>,
  <<"<", "U", "D", "I", "M", ">">>,
  <<"<", "t", "i", "l", "e", ">">>,
  <<"<", "u", "v", "t", "i", "l", "e", ">">>,
  <<"u", "<", "u", ">", "_", "v", "<", "v", ">">>,
  <<"<", "f", "r", "a", "m", "e", "0", "4", ">">>,
  <<"<", "a", "t", "t", "r", ":", "x", ">">>,
  <<"<", "m", "e", "s", "h", "i", "t", "e", "m", ">">> }

RECURSIVE Flatten(_)
Flatten(ps) == IF ps = <<>> THEN <<>> ELSE Head(ps) \o Flatten(Tail(ps))

GlobStart ==
  /\ in_parts \in SeqsUpTo(Pieces, MaxPieces)
  /\ in_path = Flatten(in_parts)
  /\ glob = NotGlobbed
  /\ attr_glob = NotGlobbed

SeqToGlob ==
  /\ pc = "idle"
  /\ glob = NotGlobbed
  /\ glob' = seq_to_glob(in_path)
  /\ UNCHANGED <<in_parts, in_path, attr_glob>>
  /\ UNCHANGED notGlobVars

ReplaceAttrTokens ==
  /\ pc = "idle"
  /\ attr_glob = NotGlobbed
  /\ attr_glob' = _replace_attr_tokens(in_path)
  /\ UNCHANGED <<in_parts, in_path, glob>>
  /\ UNCHANGED notGlobVars

GlobNext == SeqToGlob \/ ReplaceAttrTokens

GlobInit ==
  /\ ScanIdle /\ FramesIdle /\ GlobStart /\ InfoIdle /\ SceneIdle /\ TokensIdle
  /\ ShowIdle
  /\ CacheIdle
  /\ ExportIdle
  /\ DialogIdle
  /\ SubmitIdle

GlobSpec == GlobInit /\ [][GlobNext]_vars

(***************************************************************************)
(* Claims about token expansion.                                           *)
(***************************************************************************)
\* s holds a token seq_to_glob replaces.
HasTokenSyntax(s) ==
  \E i \in 1..Len(s) :
    \E kind \in {"attr", "meshitem", "udim", "tile", "uvtile", "hashes", "frame0"} :
      MatchLen(kind, s, i) > 0

\* C10: the result of token expansion holds no recognized token syntax, and
\* expanding it again returns it unchanged.
C10_ExpansionIdempotent ==
  glob.status = "ok" =>
    /\ ~HasTokenSyntax(glob.value)
    /\ seq_to_glob(glob.value) = glob

(***************************************************************************)
(* get_scene_info, the files entry: the scene's files without duplicates,  *)
(* then every extra asset with its backslashes replaced.                   *)
(***************************************************************************)
\* Paths get_scene_files yields.
ScenePaths == { <<"a">>, <<"d", "/", "t">>, <<"d", "\\", "t">> }

\* Paths the user adds as extra assets.
ExtraPaths == ScenePaths

\* A variant that leaves the separators as they are.
ReplaceBackslash_Keep(full_name) == full_name

\* full_name.replace('\\', '/')
ReplaceBackslash(full_name) ==
  [i \in 1..Len(full_name) |-> IF full_name[i] = "\\" THEN "/" ELSE full_name[i]]

\* set(get_scene_files())
SetOf(seq) == {seq[i] : i \in 1..Len(seq)}

InfoStart ==
  /\ scene_files \in SeqsUpTo(ScenePaths, MaxSceneFiles)
  /\ extra_assets \in SeqsUpTo(ExtraPaths, MaxExtra)
  /\ files = NotCollected

\* scene_info['files'] = list(set(get_scene_files())), then one append per
\* extra asset.
GetSceneInfoFiles ==
  /\ pc = "idle"
  /\ files = NotCollected
  /\ \E listed \in Orders(SetOf(scene_files)) :
       files' = [status |-> "ok", value |->
                  listed \o [i \in 1..Len(extra_assets) |->
                               ReplaceBackslash(extra_assets[i])]]
  /\ UNCHANGED <<scene_files, extra_assets>>
  /\ UNCHANGED notInfoVars

InfoNext == GetSceneInfoFiles

InfoInit ==
  /\ ScanIdle /\ FramesIdle /\ GlobIdle /\ InfoStart /\ SceneIdle /\ TokensIdle
  /\ ShowIdle
  /\ CacheIdle
  /\ ExportIdle
  /\ DialogIdle
  /\ SubmitIdle

InfoSpec == InfoInit /\ [][InfoNext]_vars

(***************************************************************************)
(* Claims about the files entry of get_scene_info.                         *)
(***************************************************************************)
\* C13: the files collection holds no path more than once.
C13_FilesNoDuplicates ==
  files.status = "ok" =>
    \A i, j \in 1..Len(files.value) : files.value[i] = files.value[j] => i = j

\* p with '/' wherever extra has a backslash and equal to extra elsewhere.
IsNormalized(p, extra) ==
  /\ Len(p) = Len(extra)
  /\ \A k \in 1..Len(p) : p[k] # "\\"
  /\ \A k \in 1..Len(p) : extra[k] # "\\" => p[k] = extra[k]

\* C14: every path of extra_assets is in the files collection, with every
\* backslash replaced by '/'.
C14_ExtraAssetsNormalized ==
  files.status = "ok" =>
    \A i \in 1..Len(extra_assets) :
      \E j \in 1..Len(files.value) : IsNormalized(files.value[j], extra_assets[i])

C14_Witness ==
  /\ files.status = "ok"
  /\ scene_files = << <<"a">> >>
  /\ extra_assets = << <<"d", "\\", "t">> >>
  /\ files.value = << <<"a">>, <<"d", "/", "t">> >>

(***************************************************************************)
(* get_scene_files: every node of every kind of the handler table goes to  *)
(* its handler, then the Xgen files follow.  The model has file, VRayMesh  *)
(* and mesh nodes; its file nodes carry no layer override.                  *)
(***************************************************************************)
TexturePath == <<"t", ".", "1">>          \* fileTextureName of a file node
MeshPath == <<"m">>                       \* a mesh file or proxy
FrameTemplate ==                          \* a texture template with a frame token
  <<"t", "e", "x", "t", "u", "r", "e", ".", "<", "f", "4", ">", ".", "e", "x", "r">>
Scene1Rib == <<"s", "c", "e", "n", "e", "1", ".", "r", "i", "b">>
ArchiveChild == <<"s", "c", "e", "n", "e", "1", "/", "c">>     \* a file of the archive directory
GzPath == <<"x", ".", "g", "z">>          \* an Xgen archive
AbcPath == <<"d", "\\", "x", ".", "a", "b", "c">>

\* An attribute of a node: absent from the node, None, '' or a path.
Absent == <<"absent">>
None == <<"None">>

FileNodes == [kind : {"file"}, fileTextureName : {TexturePath, FrameTemplate},
              useFrameExtension : BOOLEAN]
VRayMeshNodes == [kind : {"VRayMesh"}, fileName : {Absent, <<>>, MeshPath}]
MeshNodes == [kind : {"mesh"}, miProxyFile : {Absent, None, MeshPath},
              rman__param___draFile : {Absent, MeshPath}]
\* A RenderManArchive node, and whether its archive directory is on storage.
ArchiveNodes == [kind : {"RenderManArchive"}, filename : {Scene1Rib},
                 archive_dir : BOOLEAN]
Nodes == FileNodes \cup VRayMeshNodes \cup MeshNodes \cup ArchiveNodes

\* os.path.splitext(p)[0]
SplitextHead(p) ==
  LET base == LastSlash(p) + 1
      dots == {i \in base..Len(p) :
                 p[i] = "." /\ \E j \in base..(i - 1) : p[j] # "."}
  IN  IF dots = {} THEN p
      ELSE SubSeq(p, 1, (CHOOSE i \in dots : \A j \in dots : j <= i) - 1)

\* current_file.endswith('.gz')
EndsWithGz(p) ==
  Len(p) >= 3 /\ SubSeq(p, Len(p) - 2, Len(p)) = <<".", "g", "z">>

TxPath(texture_path) == SplitextHead(texture_path) \o <<".", "t", "x">>
TocPath(current_file) == SplitextHead(current_file) \o <<"t", "o", "c">>

\* The derived paths of the model's scenes.
DerivedPaths == { TxPath(TexturePath), TxPath(seq_to_glob(TexturePath).value),
                  TocPath(GzPath) }

\* What a handler yields is a sequence of paths, each with how it was come
\* by: read from an attribute, or derived as the .tx or the toc sibling.
Yield(p, how) == [path |-> p, how |-> how]

\* A handler's run: the paths it yields, or the error cmds.getAttr raises on
\* an absent attribute.
Yields(seq) == [status |-> "ok", value |-> seq]
Raises == [status |-> "ValueError", value |-> <<>>]

\* _file_handler of scripts/zync_maya.py: the texture path (a glob for an
\* image sequence), then its .tx version when Arnold's flag is on.
\* node_uses_image_sequence
node_uses_image_sequence(node) ==
  \/ node.useFrameExtension
  \/ \E tok \in {TokUdim, TokTile, TokUvtile, TokUV, TokFrame0, TokAttrOpen} :
       ContainsCI(node.fileTextureName, tok)

_file_handler(node, tx) ==
  LET texture_path == IF node_uses_image_sequence(node)
                        THEN seq_to_glob(node.fileTextureName).value
                        ELSE node.fileTextureName
  IN  Yields(<<Yield(texture_path, "attr")>>
             \o (IF tx = "on" THEN <<Yield(TxPath(texture_path), "tx")>> ELSE <<>>))

_vrmesh_handler(node) ==
  IF node.fileName = Absent THEN Raises
  ELSE Yields(<<Yield(node.fileName, "attr")>>)

\* _mesh_handler: each of the two attributes inside its own try.
MeshAttr(value) ==
  IF value \in {Absent, None} THEN <<>> ELSE <<Yield(value, "attr")>>

_mesh_handler(node) ==
  Yields(MeshAttr(node.miProxyFile) \o MeshAttr(node.rman__param___draFile))

\* _ribArchive_handler: the archive path, then the files of the archive
\* directory when there is one.  The archive itself is not opened.
_ribArchive_handler(node) ==
  Yields(<<Yield(node.filename, "attr")>>
         \o (IF node.archive_dir THEN <<Yield(ArchiveChild, "attr")>> ELSE <<>>))

handler(node, tx) ==
  CASE node.kind = "file" -> _file_handler(node, tx)
    [] node.kind = "RenderManArchive" -> _ribArchive_handler(node)
    [] node.kind = "VRayMesh" -> _vrmesh_handler(node)
    [] node.kind = "mesh" -> _mesh_handler(node)

\* if scene_file: scene_file = scene_file.replace('\\', '/'); yield scene_file
RECURSIVE YieldSceneFiles(_)
YieldSceneFiles(seq) ==
  IF seq = <<>> THEN <<>>
  ELSE (IF Head(seq).path = <<>> THEN <<>>
        ELSE <<Yield(ReplaceBackslash(Head(seq).path), Head(seq).how)>>)
       \o YieldSceneFiles(Tail(seq))

\* _get_files_from_files_attr: each file, and for a .gz archive its toc file
\* when that exists.
RECURSIVE _get_files_from_files_attr(_, _)
_get_files_from_files_attr(attrs, store) ==
  IF attrs = <<>> THEN <<>>
  ELSE <<Yield(Head(attrs), "attr")>>
       \o (IF EndsWithGz(Head(attrs)) /\ TocPath(Head(attrs)) \in store
             THEN <<Yield(TocPath(Head(attrs)), "toc")>> ELSE <<>>)
       \o _get_files_from_files_attr(Tail(attrs), store)

\* get_xgen_files raises NameError when Xgen is not loaded.
get_xgen_files ==
  IF xgen_error THEN [status |-> "NameError", value |-> <<>>]
  ELSE Yields(_get_files_from_files_attr(xgen_attr, storage))

SceneStart ==
  /\ scene_nodes \in SeqsUpTo(Nodes, MaxNodes)
  /\ use_tx \in {"on", "off", "absent"}
  /\ storage \in SUBSET DerivedPaths
  /\ xgen_error \in BOOLEAN
  /\ xgen_attr \in {<<>>, <<GzPath>>, <<AbcPath>>}
  /\ xgen_error => xgen_attr = <<>>
  /\ node_next = 0
  /\ found = <<>>
  /\ gsf = "idle"

\* get_scene_files() is called.
GetSceneFiles ==
  /\ pc = "idle"
  /\ gsf = "idle"
  /\ gsf' = "nodes"
  /\ node_next' = 1
  /\ UNCHANGED <<scene_nodes, use_tx, storage, xgen_error, xgen_attr, found>>
  /\ UNCHANGED notSceneVars

\* One node goes through its handler; an error of the handler leaves
\* get_scene_files.
HandleNode ==
  /\ gsf = "nodes"
  /\ node_next <= Len(scene_nodes)
  /\ LET run == handler(scene_nodes[node_next], use_tx)
     IN  IF run.status = "ok"
           THEN /\ found' = found \o YieldSceneFiles(run.value)
                /\ node_next' = node_next + 1
                /\ UNCHANGED gsf
           ELSE /\ gsf' = "raised"
                /\ UNCHANGED <<found, node_next>>
  /\ UNCHANGED <<scene_nodes, use_tx, storage, xgen_error, xgen_attr>>
  /\ UNCHANGED notSceneVars

\* After the last node: the Xgen files, a NameError is caught and printed.
XgenFiles ==
  /\ gsf = "nodes"
  /\ node_next > Len(scene_nodes)
  /\ found' = found \o get_xgen_files.value
  /\ gsf' = "done"
  /\ UNCHANGED <<scene_nodes, use_tx, storage, xgen_error, xgen_attr, node_next>>
  /\ UNCHANGED notSceneVars

\* get_scene_info, after the files: scene_info['xgen_files'] is built from a
\* second run of get_xgen_files, outside any try block.
SceneInfoXgenFiles ==
  /\ gsf = "done"
  /\ gsf' = IF get_xgen_files.status = "NameError" THEN "info_raised"
            ELSE "info_returned"
  /\ UNCHANGED <<scene_nodes, use_tx, storage, xgen_error, xgen_attr, node_next,
                 found>>
  /\ UNCHANGED notSceneVars

SceneNext == GetSceneFiles \/ HandleNode \/ XgenFiles \/ SceneInfoXgenFiles

SceneInit ==
  /\ ScanIdle /\ FramesIdle /\ GlobIdle /\ InfoIdle /\ SceneStart /\ TokensIdle
  /\ ShowIdle
  /\ CacheIdle
  /\ ExportIdle
  /\ DialogIdle
  /\ SubmitIdle

SceneSpec == SceneInit /\ [][SceneNext]_vars

(***************************************************************************)
(* Claims about get_scene_files and its handlers.                          *)
(***************************************************************************)
\* C30: no path of the files get_scene_info returns holds a backslash; the
\* files are the paths get_scene_files yielded, and the extra assets.
C30_NoBackslashInFiles ==
  gsf = "info_returned" =>
    \A i \in 1..Len(found) :
      \A k \in 1..Len(found[i].path) : found[i].path[k] # "\\"

C15_AbsentAttributeSkipped ==
  /\ gsf # "raised"
  /\ \A i \in 1..Len(found) : found[i].path # Absent

\* C16: a derived sibling path (the .tx version of a texture, the toc file of
\* a .gz archive) is yielded only if it exists on storage.
C16_DerivedPathExists ==
  \A i \in 1..Len(found) :
    found[i].how \in {"tx", "toc"} => found[i].path \in storage

\* The scene of the end-to-end scenario: one texture node with the template
\* texture.<f4>.exr and one archive node referencing scene1.rib, nothing else.
IsScenario ==
  /\ Len(scene_nodes) = 2
  /\ \E i, j \in 1..2 :
       /\ scene_nodes[i].kind = "file"
       /\ scene_nodes[i].fileTextureName = FrameTemplate
       /\ scene_nodes[j].kind = "RenderManArchive"
       /\ scene_nodes[j].filename = Scene1Rib
       /\ ~scene_nodes[j].archive_dir
  /\ use_tx # "on"
  /\ xgen_attr = <<>>

\* C19: for that scene the collected set is exactly
\* {texture.*.exr, scene1.rib, tex2.tif}.
C19_EndToEndScenario ==
  (IsScenario /\ gsf = "done") =>
    {found[i].path : i \in 1..Len(found)} =
      { <<"t", "e", "x", "t", "u", "r", "e", ".", "*", ".", "e", "x", "r">>,
        Scene1Rib,
        <<"t", "e", "x", "2", ".", "t", "i", "f">> }

(***************************************************************************)
(* Token substitution: the head of generate_files_from_tokenized_path      *)
(* (renderman_maya.py) and the file name prefix of export_vrscene          *)
(* (zync_maya.py), on strings of characters.                               *)
(***************************************************************************)
TokFrame == <<"<", "f", "r", "a", "m", "e", ">">>
TokF == <<"<", "f", ">">>
TokF2 == <<"<", "f", "2", ">">>
TokF3 == <<"<", "f", "3", ">">>
TokF4 == <<"<", "f", "4", ">">>
TokPercentS == <<"%", "s">>
TokScene == <<"<", "s", "c", "e", "n", "e", ">">>

\* _SUBSTITUTE_LAYER_TOKEN_RE and _SUBSTITUTE_CAMERA_TOKEN_RE, in lower case.
_SUBSTITUTE_LAYER_TOKEN_RE == <<<<"%", "l">>, <<"<", "l", "a", "y", "e", "r", ">">>,
                                <<"<", "r", "e", "n", "d", "e", "r", "l", "a", "y", "e", "r", ">">>>>
_SUBSTITUTE_CAMERA_TOKEN_RE == <<<<"%", "c">>, <<"<", "c", "a", "m", "e", "r", "a", ">">>>>

\* str.replace(old, new), from position i on; case matters.
RECURSIVE StrReplaceFrom(_, _, _, _)
StrReplaceFrom(str, old, new, i) ==
  IF i > Len(str) THEN <<>>
  ELSE IF i + Len(old) - 1 <= Len(str) /\ SubSeq(str, i, i + Len(old) - 1) = old
         THEN new \o StrReplaceFrom(str, old, new, i + Len(old))
         ELSE <<str[i]>> \o StrReplaceFrom(str, old, new, i + 1)

StrReplace(str, old, new) == StrReplaceFrom(str, old, new, 1)

\* re.sub(alternatives, repl, str, flags=re.IGNORECASE), from position i on:
\* at each position the first alternative that matches is taken.
RECURSIVE SubAltFrom(_, _, _, _)
SubAltFrom(alts, repl, str, i) ==
  IF i > Len(str) THEN <<>>
  ELSE LET hits == {k \in 1..Len(alts) : HasAtCI(str, i, alts[k])}
       IN  IF hits # {}
             THEN repl \o SubAltFrom(alts, repl, str,
                    i + Len(alts[CHOOSE k \in hits : \A h \in hits : k <= h]))
             ELSE <<str[i]>> \o SubAltFrom(alts, repl, str, i + 1)

SubAlt(alts, repl, str) == SubAltFrom(alts, repl, str, 1)

\* A variant that tests only for the %l spelling.
_HAS_LAYER_TOKEN_RE_PercentOnly(str) == ContainsCI(str, _SUBSTITUTE_LAYER_TOKEN_RE[1])

\* re.match(_HAS_LAYER_TOKEN_RE, str)
_HAS_LAYER_TOKEN_RE(str) ==
  \E k \in 1..Len(_SUBSTITUTE_LAYER_TOKEN_RE) :
    ContainsCI(str, _SUBSTITUTE_LAYER_TOKEN_RE[k])

\* The frame tags become wildcards, the camera token the camera's name.
expandedPath(path, cam) ==
  SubAlt(_SUBSTITUTE_CAMERA_TOKEN_RE, cam,
    StrReplace(StrReplace(StrReplace(StrReplace(StrReplace(path,
      TokFrame, <<"*">>), TokF, <<"*">>), TokF2, <<"*">>), TokF3, <<"*">>),
      TokF4, <<"*">>))

\* allPaths of generate_files_from_tokenized_path.
generate_files_from_tokenized_path(path, cam, layers) ==
  IF _HAS_LAYER_TOKEN_RE(expandedPath(path, cam))
    THEN [i \in 1..Len(layers) |->
            SubAlt(_SUBSTITUTE_LAYER_TOKEN_RE, layers[i], expandedPath(path, cam))]
    ELSE <<expandedPath(path, cam)>>

SceneName == <<"s", "c">>

\* params['camera'].replace(':', '_')
clean_camera(cam) == [i \in 1..Len(cam) |-> IF cam[i] = ":" THEN "_" ELSE cam[i]]

\* export_vrscene: tail, from vraySettings.fileNamePrefix.
export_vrscene_tail(prefix, scene_name, layer, cam) ==
  LET t == IF prefix = <<>> THEN scene_name
           ELSE SubAlt(_SUBSTITUTE_CAMERA_TOKEN_RE, clean_camera(cam),
                  SubAlt(_SUBSTITUTE_LAYER_TOKEN_RE, layer,
                    SubAlt(<<TokScene>>, scene_name,
                      StrReplace(prefix, TokPercentS, scene_name))))
  IN  IF t[Len(t)] # "." THEN t \o <<".">> ELSE t

\* The tokenized paths of the model: up to MaxTokPieces of these in a row.
TokPieces == {
  <<"o">>,
  <<"%", "l">>,
  <<"<", "L", "a", "y", "e", "r", ">">>,
  <<"<", "r", "e", "n", "d", "e", "r", "l", "a", "y", "e", "r", ">">>,
  <<"%", "C">>,
  <<"<", "c", "a", "m", "e", "r", "a", ">">>,
  <<"<", "f", "4", ">">> }

LayerNames == { <<"L", "1">>, <<"L", "2">> }
CameraNames == { <<"c">>, <<"n", ":", "c">> }

TokensStart ==
  /\ tok_parts \in SeqsUpTo(TokPieces, MaxTokPieces)
  /\ tokenizedPath = Flatten(tok_parts)
  /\ camera \in CameraNames
  /\ layers_to_render \in SeqsUpTo(LayerNames, MaxLayers)
  /\ allPaths = NotExpanded
  /\ tail = NotExpanded

GenerateFiles ==
  /\ pc = "idle"
  /\ allPaths = NotExpanded
  /\ allPaths' = [status |-> "ok", value |->
       generate_files_from_tokenized_path(tokenizedPath, camera, layers_to_render)]
  /\ UNCHANGED <<tok_parts, tokenizedPath, camera, layers_to_render, tail>>
  /\ UNCHANGED notTokenVars

ExportVrscene ==
  /\ pc = "idle"
  /\ tail = NotExpanded
  /\ \E layer \in LayerNames :
       tail' = [status |-> "ok", layer |-> layer, value |->
                 export_vrscene_tail(tokenizedPath, SceneName, layer, camera)]
  /\ UNCHANGED <<tok_parts, tokenizedPath, camera, layers_to_render, allPaths>>
  /\ UNCHANGED notTokenVars

TokenNext == GenerateFiles \/ ExportVrscene

TokenInit ==
  /\ ScanIdle /\ FramesIdle /\ GlobIdle /\ InfoIdle /\ SceneIdle /\ TokensStart
  /\ ShowIdle
  /\ CacheIdle
  /\ ExportIdle
  /\ DialogIdle
  /\ SubmitIdle

TokenSpec == TokenInit /\ [][TokenNext]_vars

(***************************************************************************)
(* Claims about token substitution.                                        *)
(***************************************************************************)
IsLayerToken(piece) ==
  \E k \in 1..Len(_SUBSTITUTE_LAYER_TOKEN_RE) :
    /\ Len(piece) = Len(_SUBSTITUTE_LAYER_TOKEN_RE[k])
    /\ \A j \in 1..Len(piece) : Lower(piece[j]) = _SUBSTITUTE_LAYER_TOKEN_RE[k][j]

IsCameraToken(piece) ==
  \E k \in 1..Len(_SUBSTITUTE_CAMERA_TOKEN_RE) :
    /\ Len(piece) = Len(_SUBSTITUTE_CAMERA_TOKEN_RE[k])
    /\ \A j \in 1..Len(piece) : Lower(piece[j]) = _SUBSTITUTE_CAMERA_TOKEN_RE[k][j]

\* The pieces with the name of the layer in the place of every layer token.
WithLayer(ps, layer) ==
  [i \in 1..Len(ps) |-> IF IsLayerToken(ps[i]) THEN layer ELSE ps[i]]

\* The pattern leaves the pieces that are no layer token as expandedPath
\* leaves them, and holds the layer's name where a layer token stood.
PatternOf(ps, layer) ==
  Flatten([i \in 1..Len(ps) |->
    IF IsLayerToken(ps[i]) THEN layer ELSE expandedPath(ps[i], camera)])

HasColon(str) == \E i \in 1..Len(str) : str[i] = ":"

\* C18: wherever a camera token is substituted the camera's name goes in with
\* every ':' replaced by '_': no expanded path holds a ':' of the camera name
\* (the templates of the model hold no ':').
C18_CameraNameCleaned ==
  /\ allPaths.status = "ok" =>
       \A n \in 1..Len(allPaths.value) : ~HasColon(allPaths.value[n])
  /\ tail.status = "ok" => ~HasColon(tail.value)

(***************************************************************************)
(* show_exceptions: calls nested in one another, some of them entry points *)
(* decorated with show_exceptions, the body of one of them raising an      *)
(* Exception.                                                              *)
(***************************************************************************)
ShowStart ==
  /\ stack \in SeqsUpTo({"wrapped", "plain"}, MaxDepth)
  /\ stack # <<>>
  /\ raise_at \in 0..Len(stack)
  /\ level = 0
  /\ exc = NoException
  /\ dialogs = <<>>
  /\ show_pc = "calling"

\* A variant that leaves the exception unmarked.
MarkShown_Forgets(e) == e

\* e.exception_already_shown = True
MarkShown(e) == [e EXCEPT !.exception_already_shown = TRUE]

\* return func(*args, **kwargs): the next call is entered.
CallFunc ==
  /\ pc = "idle"
  /\ show_pc = "calling"
  /\ level < Len(stack)
  /\ level = 0 \/ level # raise_at
  /\ level' = level + 1
  /\ UNCHANGED <<stack, raise_at, exc, dialogs, show_pc>>
  /\ UNCHANGED notShowVars

\* The body of the call raises.
RaiseInFunc ==
  /\ show_pc = "calling"
  /\ level > 0
  /\ level = raise_at
  /\ exc' = [raised |-> TRUE, exception_already_shown |-> FALSE]
  /\ show_pc' = "unwinding"
  /\ UNCHANGED <<stack, raise_at, level, dialogs>>
  /\ UNCHANGED notShowVars

\* The innermost call returns without an exception.
FuncReturns ==
  /\ show_pc = "calling"
  /\ level = Len(stack)
  /\ level # raise_at
  /\ show_pc' = "returning"
  /\ UNCHANGED <<stack, raise_at, level, exc, dialogs>>
  /\ UNCHANGED notShowVars

\* A return value passes through a call, decorated or not.
ReturnThrough ==
  /\ show_pc = "returning"
  /\ level > 0
  /\ level' = level - 1
  /\ show_pc' = IF level = 1 THEN "returned" ELSE "returning"
  /\ UNCHANGED <<stack, raise_at, exc, dialogs>>
  /\ UNCHANGED notShowVars

\* wrapped's except clause: the dialog unless the exception is marked as
\* shown, the mark, and the raise.
WrappedExcept ==
  /\ show_pc = "unwinding"
  /\ level > 0
  /\ stack[level] = "wrapped"
  /\ IF ~exc.exception_already_shown
       THEN /\ dialogs' = Append(dialogs, level)
            /\ exc' = MarkShown(exc)
       ELSE UNCHANGED <<dialogs, exc>>
  /\ level' = level - 1
  /\ show_pc' = IF level = 1 THEN "escaped" ELSE "unwinding"
  /\ UNCHANGED <<stack, raise_at>>
  /\ UNCHANGED notShowVars

\* The exception passes through a call that is not decorated.
PlainUnwind ==
  /\ show_pc = "unwinding"
  /\ level > 0
  /\ stack[level] = "plain"
  /\ level' = level - 1
  /\ show_pc' = IF level = 1 THEN "escaped" ELSE "unwinding"
  /\ UNCHANGED <<stack, raise_at, exc, dialogs>>
  /\ UNCHANGED notShowVars

ShowNext ==
  \/ CallFunc
  \/ RaiseInFunc
  \/ FuncReturns
  \/ ReturnThrough
  \/ WrappedExcept
  \/ PlainUnwind

ShowInit ==
  /\ ScanIdle /\ FramesIdle /\ GlobIdle /\ InfoIdle /\ SceneIdle /\ TokensIdle
  /\ ShowStart
  /\ CacheIdle
  /\ ExportIdle
  /\ DialogIdle
  /\ SubmitIdle

ShowSpec == ShowInit /\ [][ShowNext]_vars

(***************************************************************************)
(* Claims about show_exceptions.                                           *)
(***************************************************************************)
\* The decorated calls the exception has passed through so far.
WrappersPassed ==
  {k \in (level + 1)..raise_at : stack[k] = "wrapped"}

IsAttrToken(piece) ==
  /\ Len(piece) > Len(TokAttrOpen)
  /\ \A j \in 1..Len(TokAttrOpen) : Lower(piece[j]) = TokAttrOpen[j]
  /\ piece[Len(piece)] = ">"

\* The template with one '*' in the place of every <attr:NAME> token.
Starred(ps) ==
  Flatten([i \in 1..Len(ps) |-> IF IsAttrToken(ps[i]) THEN <<"*">> ELSE ps[i]])

OnlyWildcards(g) == {g[i] : i \in 1..Len(g)} \subseteq {"/", "*"}

AttrOutcome(ps) ==
  IF OnlyWildcards(Starred(ps))
    THEN [status |-> "MayaZyncException", value |-> Starred(ps)]
    ELSE [status |-> "ok", value |-> Starred(ps)]

\* C11 as stated: every <attr:NAME> token becomes exactly one '*', the
\* too-broad error is raised whenever the resulting pattern holds no character
\* other than '/' and '*', and otherwise the resulting pattern is returned.
C11_AttrTokensStarred ==
  attr_glob # NotGlobbed => attr_glob = AttrOutcome(in_parts)

\* C11 amended: the above holds for every non-empty path; the empty path is
\* returned as it is, without an error.
C11_NonEmptyAttrTokensStarred ==
  attr_glob # NotGlobbed =>
    IF in_path = <<>>
      THEN attr_glob = [status |-> "ok", value |-> <<>>]
      ELSE attr_glob = AttrOutcome(in_parts)

C11_Witness ==
  /\ \E i, j \in 1..Len(in_parts) :
       i # j /\ IsAttrToken(in_parts[i]) /\ IsAttrToken(in_parts[j])
  /\ \E i \in 1..Len(in_parts) : in_parts[i] = <<"t", "e", "x">>
  /\ attr_glob.status = "ok"
  /\ Len(attr_glob.value) = 5

\* C12: a non-empty path without an <attr:...> token is returned unchanged,
\* and no error is raised.
C12_NoAttrUnchanged ==
  (attr_glob # NotGlobbed /\ in_path # <<>>
     /\ \A i \in 1..Len(in_parts) : ~IsAttrToken(in_parts[i]))
    => attr_glob = [status |-> "ok", value |-> in_path]

(***************************************************************************)
(* LAYER_INFO: the layer information get_layer_override caches while       *)
(* get_scene_info runs, get_scene_info being called again and again on a   *)
(* scene the user edits between the calls.                                 *)
(***************************************************************************)
Layers == {"defaultRenderLayer", "layer1"}
Prefixes == {"p", "q"}

\* layer not in LAYER_INFO
NotStored == [prefix |-> "", call |-> 0]

CacheStart ==
  /\ LAYER_INFO = [l \in Layers |-> NotStored]
  /\ layer_scene \in [Layers -> Prefixes]
  /\ info_call = 0
  /\ in_info = FALSE
  /\ collects = [l \in Layers |-> 0]
  /\ override = NoOverride

\* A clear_layer_info that leaves the dict as it is.
clear_layer_info_Keeps == LAYER_INFO

\* LAYER_INFO = {}
clear_layer_info == [l \in Layers |-> NotStored]

\* collect_layer_info reads the layer's prefix from the scene; the entry
\* remembers the call that collected it.
collect_layer_info(layer) == [prefix |-> layer_scene[layer], call |-> info_call]

\* get_scene_info starts: clear_layer_info().
GetSceneInfo ==
  /\ pc = "idle"
  /\ ~in_info
  /\ info_call < MaxCalls
  /\ in_info' = TRUE
  /\ info_call' = info_call + 1
  /\ LAYER_INFO' = clear_layer_info
  /\ collects' = [l \in Layers |-> 0]
  /\ override' = NoOverride
  /\ UNCHANGED layer_scene
  /\ UNCHANGED notCacheVars

\* get_layer_override(layer, renderer, 'prefix'), called by get_scene_info.
GetLayerOverride(layer) ==
  /\ in_info
  /\ IF LAYER_INFO[layer] = NotStored
       THEN /\ LAYER_INFO' = [LAYER_INFO EXCEPT ![layer] = collect_layer_info(layer)]
            /\ collects' = [collects EXCEPT ![layer] = @ + 1]
       ELSE UNCHANGED <<LAYER_INFO, collects>>
  /\ override' = [layer |-> layer, value |-> LAYER_INFO'[layer].prefix,
                  call |-> LAYER_INFO'[layer].call]
  /\ UNCHANGED <<layer_scene, info_call, in_info>>
  /\ UNCHANGED notCacheVars

\* get_scene_info returns.
ReturnSceneInfo ==
  /\ in_info
  /\ in_info' = FALSE
  /\ UNCHANGED <<LAYER_INFO, layer_scene, info_call, collects, override>>
  /\ UNCHANGED notCacheVars

\* Between two calls the user gives a layer another prefix.
EditScene ==
  /\ pc = "idle"
  /\ ~in_info
  /\ layer_scene # <<>>
  /\ \E layer \in Layers : \E prefix \in Prefixes \ {layer_scene[layer]} :
       layer_scene' = [layer_scene EXCEPT ![layer] = prefix]
  /\ UNCHANGED <<LAYER_INFO, info_call, in_info, collects, override>>
  /\ UNCHANGED notCacheVars

CacheNext ==
  \/ GetSceneInfo
  \/ \E layer \in Layers : GetLayerOverride(layer)
  \/ ReturnSceneInfo
  \/ EditScene

CacheInit ==
  /\ ScanIdle /\ FramesIdle /\ GlobIdle /\ InfoIdle /\ SceneIdle /\ TokensIdle
  /\ ShowIdle
  /\ CacheStart
  /\ ExportIdle
  /\ DialogIdle
  /\ SubmitIdle

CacheSpec == CacheInit /\ [][CacheNext]_vars

(***************************************************************************)
(* Claims about the layer information cache.                               *)
(***************************************************************************)
\* C24: a layer-override value get_layer_override returns during a
\* get_scene_info call was collected during that call and is the scene's
\* value; collect_layer_info runs at most once per layer within the call; no
\* entry of an earlier call is in the dict while a call runs.
C24_OverridesOfThisCall ==
  /\ override # NoOverride => override.call = info_call
  /\ (in_info /\ override # NoOverride) =>
       override.value = layer_scene[override.layer]
  /\ \A l \in Layers :
       /\ collects[l] <= 1
       /\ (in_info /\ LAYER_INFO[l] # NotStored) => LAYER_INFO[l].call = info_call

C24_Witness ==
  /\ info_call = 2
  /\ in_info
  /\ override = [layer |-> "layer1", value |-> "q", call |-> 2]
  /\ collects = [l \in Layers |-> 1]

(***************************************************************************)
(* export_vrscene and export_ass of SubmitWindow: both open an undo chunk, *)
(* change the scene, run the exporter, close the chunk and undo it.        *)
(***************************************************************************)
Exporters == {"vrscene", "ass"}
ExportFrames == 1..MaxExportFrame
Scenes ==
  [currentRenderLayer : Layers, vrscene_on : {0, 1}, startFrame : ExportFrames]

\* cmds.undoInfo(openChunk=True): the changes that follow go to one chunk.
OpenChunk(q) == Append(q, <<>>)

\* A change of one attribute, recorded in the chunk on top of the undo queue.
Record(q, sc, attr) ==
  [q EXCEPT ![Len(q)] = Append(@, [attr |-> attr, old |-> sc[attr]])]
SetAttr(sc, attr, value) == [sc EXCEPT ![attr] = value]

\* cmds.undo(): the chunk on top of the queue is taken back, last change first.
RECURSIVE Undone(_, _)
Undone(sc, chunk) ==
  IF chunk = <<>> THEN sc
  ELSE Undone(SetAttr(sc, chunk[Len(chunk)].attr, chunk[Len(chunk)].old),
              SubSeq(chunk, 1, Len(chunk) - 1))

ExportStart ==
  /\ scene \in Scenes
  /\ undo_queue = <<>>
  /\ chunk_open = FALSE
  /\ exp_call = NoCall
  /\ exp_pc = "idle"
  /\ scene_before = scene

\* export_vrscene or export_ass is called: the undo chunk is opened.
ExportStandalone(exporter, layer, start_frame) ==
  /\ pc = "idle"
  /\ exp_pc = "idle"
  /\ exp_call' = [exporter |-> exporter, layer |-> layer,
                  start_frame |-> start_frame]
  /\ undo_queue' = OpenChunk(undo_queue)
  /\ chunk_open' = TRUE
  /\ scene_before' = scene
  /\ exp_pc' = "opened"
  /\ UNCHANGED scene
  /\ UNCHANGED notExportVars

\* _switch_to_renderlayer(layer)
_switch_to_renderlayer ==
  /\ exp_pc = "opened"
  /\ scene' = SetAttr(scene, "currentRenderLayer", exp_call.layer)
  /\ undo_queue' = Record(undo_queue, scene, "currentRenderLayer")
  /\ exp_pc' = IF exp_call.exporter = "vrscene" THEN "globals" ELSE "export"
  /\ UNCHANGED <<chunk_open, exp_call, scene_before>>
  /\ UNCHANGED notExportVars

\* export_vrscene sets the render globals; cmds.setAttr raises RuntimeError
\* on an attribute that is locked or missing, after `done` settings were made.
SetRenderGlobals(done) ==
  /\ exp_pc = "globals"
  /\ LET sc1 == IF done >= 1 THEN SetAttr(scene, "vrscene_on", 1) ELSE scene
         q1  == IF done >= 1 THEN Record(undo_queue, scene, "vrscene_on")
                ELSE undo_queue
         sc2 == IF done >= 2
                  THEN SetAttr(sc1, "startFrame", exp_call.start_frame)
                  ELSE sc1
         q2  == IF done >= 2 THEN Record(q1, sc1, "startFrame") ELSE q1
     IN  /\ scene' = sc2
         /\ undo_queue' = q2
  /\ exp_pc' = IF done = 2 THEN "export" ELSE "raised"
  /\ UNCHANGED <<chunk_open, exp_call, scene_before>>
  /\ UNCHANGED notExportVars

\* maya.mel.eval of the export command: it returns, or it raises RuntimeError
\* when the command fails.
RunExport(fails) ==
  /\ exp_pc = "export"
  /\ exp_pc' = IF fails THEN "raised" ELSE "exported"
  /\ UNCHANGED <<scene, undo_queue, chunk_open, exp_call, scene_before>>
  /\ UNCHANGED notExportVars

\* cmds.undoInfo(closeChunk=True); cmds.undo(); return
CloseChunkAndUndo ==
  /\ exp_pc = "exported"
  /\ chunk_open' = FALSE
  /\ scene' = Undone(scene, undo_queue[Len(undo_queue)])
  /\ undo_queue' = SubSeq(undo_queue, 1, Len(undo_queue) - 1)
  /\ exp_pc' = "returned"
  /\ UNCHANGED <<exp_call, scene_before>>
  /\ UNCHANGED notExportVars

ExportNext ==
  \/ \E exporter \in Exporters, layer \in Layers, start_frame \in ExportFrames :
       ExportStandalone(exporter, layer, start_frame)
  \/ _switch_to_renderlayer
  \/ \E done \in 0..2 : SetRenderGlobals(done)
  \/ \E fails \in BOOLEAN : RunExport(fails)
  \/ CloseChunkAndUndo

ExportInit ==
  /\ ScanIdle /\ FramesIdle /\ GlobIdle /\ InfoIdle /\ SceneIdle /\ TokensIdle
  /\ ShowIdle
  /\ CacheIdle
  /\ ExportStart
  /\ DialogIdle
  /\ SubmitIdle

ExportSpec == ExportInit /\ [][ExportNext]_vars

\* C26: once export_vrscene or export_ass has finished, by returning or by
\* raising, the scene is what it was before the call and no undo chunk is
\* left open.
C26_SceneRestored ==
  exp_pc \in {"returned", "raised"} =>
    /\ scene = scene_before
    /\ chunk_open = FALSE

(***************************************************************************)
(* CheckableDirModel of file_select_dialog.py: the check boxes of the file *)
(* selection dialog.                                                       *)
(***************************************************************************)
\* os.path.isdir and glob.glob(os.path.join(d, '*')) on the tree.
IsDir(n) == n \in {TreeRoot, DirR, DirA}
IsEntryOf(d, n) == n # d /\ Dirname(n) = d
Glob(d) == SelectSeq(Listing, LAMBDA n : IsEntryOf(d, n))

\* self.files.get(filename, QtCore.Qt.Unchecked)
Stored(f, n) == IF f[n] = "absent" THEN "Unchecked" ELSE f[n]

RECURSIVE _getCheckStatus(_, _)
_getCheckStatus(f, filename) ==
  IF Stored(f, filename) = "Checked" THEN "Checked"
  ELSE IF Stored(f, filename) = "PartiallyChecked" THEN "Unchecked"
  ELSE IF Dirname(filename) # filename
         THEN _getCheckStatus(f, Dirname(filename))
         ELSE "Unchecked"

_setStatusSideways(f, filename, status) ==
  [n \in DirTree |->
     IF \E i \in 1..Len(Glob(Dirname(filename))) :
          Glob(Dirname(filename))[i] = n
       THEN status ELSE f[n]]

RECURSIVE _propagateUp(_, _)
_propagateUp(f, filename) ==
  LET dirname == Dirname(filename)
      full_names == Glob(dirname)
      num_checked ==
        Cardinality({i \in 1..Len(full_names) :
                       Stored(f, full_names[i]) = "Checked"})
      num_unchecked ==
        Cardinality({i \in 1..Len(full_names) :
                       Stored(f, full_names[i]) = "Unchecked"})
      set ==
        IF num_checked = Len(full_names)
          THEN _setStatusSideways([f EXCEPT ![dirname] = "Checked"],
                                  filename, "Unchecked")
        ELSE IF num_unchecked = Len(full_names)
          THEN [f EXCEPT ![dirname] = "Unchecked"]
        ELSE [f EXCEPT ![dirname] = "PartiallyChecked"]
  IN  IF dirname = filename THEN f ELSE _propagateUp(set, dirname)

\* _clearDown: each entry of the directory is deleted from self.files and
\* then _clearDown runs on it.
RECURSIVE _clearDown(_, _)
RECURSIVE ClearEach(_, _)
ClearEach(f, full_names) ==
  IF full_names = <<>> THEN f
  ELSE ClearEach(_clearDown([f EXCEPT ![Head(full_names)] = "absent"],
                            Head(full_names)),
                 Tail(full_names))
_clearDown(f, filename) ==
  IF f[filename] = "absent" \/ ~IsDir(filename) THEN f
  ELSE ClearEach(f, Glob(filename))

setData(f, filename) ==
  LET down == _clearDown(f, filename)
      own ==
        IF _getCheckStatus(down, filename) = "Checked"
          THEN [(IF Stored(down, filename) = "Unchecked"
                   THEN _setStatusSideways(down, filename, "Checked")
                   ELSE down) EXCEPT ![filename] = "Unchecked"]
          ELSE [down EXCEPT ![filename] = "Checked"]
  IN  _propagateUp(own, filename)

DialogStart ==
  /\ self_files = NothingStored
  /\ toggled = NoFilename
  /\ files_before = NothingStored
  /\ cleared = NothingStored

\* The user clicks the check box of one item.
SetData(filename) ==
  /\ pc = "idle"
  /\ self_files' = setData(self_files, filename)
  /\ toggled' = filename
  /\ files_before' = self_files
  /\ cleared' = _clearDown(self_files, filename)
  /\ UNCHANGED notDialogVars

DialogNext == \E filename \in DirTree : SetData(filename)

DialogInit ==
  /\ ScanIdle /\ FramesIdle /\ GlobIdle /\ InfoIdle /\ SceneIdle /\ TokensIdle
  /\ ShowIdle
  /\ CacheIdle
  /\ ExportIdle
  /\ DialogStart
  /\ SubmitIdle

DialogSpec == DialogInit /\ [][DialogNext]_vars

\* a lies above n in the tree.
RECURSIVE IsAncestor(_, _)
IsAncestor(a, n) ==
  /\ Dirname(n) # n
  /\ (Dirname(n) = a \/ IsAncestor(a, Dirname(n)))

\* C27: after _clearDown on a directory that has a stored check status,
\* nothing beneath the directory, at any depth, has a stored check status.
C27_ClearDownClearsAllDepths ==
  (toggled # NoFilename /\ IsDir(toggled) /\ files_before[toggled] # "absent") =>
    \A n \in DirTree : IsAncestor(toggled, n) => cleared[n] = "absent"

\* C28: a toggle of one item leaves the effective check status of every item
\* that is neither the item, nor beneath it, nor above it, as it was.
C28_OnlyOwnLineChanges ==
  toggled # NoFilename =>
    \A n \in DirTree :
      (n # toggled /\ ~IsAncestor(toggled, n) /\ ~IsAncestor(n, toggled)) =>
        _getCheckStatus(self_files, n) = _getCheckStatus(files_before, n)

(***************************************************************************)
(* SubmitWindow.submit: the start and end frame handed to export_vrscene   *)
(* and export_ass.                                                         *)
(***************************************************************************)
\* s.split('-')
RECURSIVE SplitDashes(_)
SplitDashes(s) ==
  LET dashes == {i \in 1..Len(s) : s[i] = "-"}
  IN  IF dashes = {} THEN <<s>>
      ELSE LET i == CHOOSE k \in dashes : \A j \in dashes : k <= j
           IN  <<SubSeq(s, 1, i - 1)>> \o SplitDashes(SubSeq(s, i + 1, Len(s)))

\* int(s): ValueError on a text that is no number, the empty text included.
IntOf(s) ==
  IF IsSigned(s) THEN [ok |-> TRUE, value |-> ToInt(s)]
  ELSE [ok |-> FALSE, value |-> 0]

StandaloneFrames(fr, upload) ==
  LET frange_split == SplitCommas(fr)
      first == SplitDashes(frange_split[1])
      last == SplitDashes(frange_split[Len(frange_split)])
      sf == IntOf(first[1])
      ef == IF upload = 1 THEN sf ELSE IntOf(last[Len(last)])
  IN  IF sf.ok /\ ef.ok
        THEN [status |-> "ok", sf |-> sf.value, ef |-> ef.value]
        ELSE [status |-> "ValueError", sf |-> 0, ef |-> 0]

\* The frame ranges of the model: those of TypedExprs the grammar accepts.
FrangeExprs ==
  {t \in TypedExprs : t # <<>> /\ \A i \in 1..Len(t) : t[i].kind # "bad"}

SubmitStart ==
  /\ frange_typed \in FrangeExprs
  /\ frange = FormatExpr(frange_typed)
  /\ upload_only \in {0, 1}
  /\ standalone = NotSubmitted

\* submit() reaches the standalone export.
Submit ==
  /\ pc = "idle"
  /\ standalone = NotSubmitted
  /\ standalone' = StandaloneFrames(frange, upload_only)
  /\ UNCHANGED <<frange_typed, frange, upload_only>>
  /\ UNCHANGED notSubmitVars

SubmitNext == Submit

SubmitInit ==
  /\ ScanIdle /\ FramesIdle /\ GlobIdle /\ InfoIdle /\ SceneIdle /\ TokensIdle
  /\ ShowIdle
  /\ CacheIdle
  /\ ExportIdle
  /\ DialogIdle
  /\ SubmitStart

SubmitSpec == SubmitInit /\ [][SubmitNext]_vars

FirstFrame(t) == t[1].a
LastFrame(t) == IF t[Len(t)].kind = "one" THEN t[Len(t)].a ELSE t[Len(t)].b

\* C29: for every accepted frame range, negative bounds included, the start
\* and end frame handed to the exporter are the first and the last frame of
\* the range.
C29_FirstAndLastFrame ==
  (standalone # NotSubmitted /\ upload_only = 0) =>
    standalone = [status |-> "ok", sf |-> FirstFrame(frange_typed),
                  ef |-> LastFrame(frange_typed)]

====
